---- MODULE Spec2Model ----
(***************************************************************************)
(* ESP01 plant watering controller (src/src/main.cpp, src/src/config.h).   *)
(*                                                                         *)
(* The control loop (loop) is modelled statement by statement where the    *)
(* flow-meter interrupt (pulseCounter) can observe or change an            *)
(* intermediate state; the interrupt may fire between any two steps of the *)
(* loop while it is attached.  Volumes are the float values of the program *)
(* in fixed point: one unit is 1/Scale ml, which makes the per-pulse       *)
(* increment and every commanded volume of the model an exact integer.     *)
(***************************************************************************)
EXTENDS Integers, Sequences, FiniteSets, TLC

\* ---------------------------------------------------------------- bounds
MaxPulses == 4          \* pulse events modelled per arming of the handler
MaxNow == 200           \* the clock is modelled up to this many ms
ClockStep == 100        \* granularity of the modelled passage of time, ms

\* ------------------------------------------------------- program constants
Scale == 3 * 7 * 11     \* units per ml (clears the denominators of 1000/1925*3/2)
CONFIG_MQTT_UPDATE_FREQ == 100
RetryDelay == 5000
Unset == (-1) * Scale   \* volumeCurrent = -1.0: pump not activated
VolumePerPulse == (((1000 * Scale) \div 1925) * 3) \div 2
                        \* 1000.0 / CONFIG_FLOW_METER_PULSES, macro expanded
                        \* textually: 1000.0 / 1925 * 3 / 2

\* ------------------------------------------------------------ the inputs
VolumeInputs == {-1, 0, 1, 2}                \* "volume" values of commands, ml
\* value of the "state" member: absent, the two payloads, another string, or
\* a value that is not a string (number, boolean, null, ...)
StateInputs == {"absent", "ON", "OFF", "other", "nonstring"}
Malformed == [parse |-> FALSE, state |-> "absent", hasVolume |-> FALSE, volume |-> 0,
              extra |-> 0]
NoMsg == [parse |-> FALSE, state |-> "none", hasVolume |-> FALSE, volume |-> 0,
          extra |-> 0]
\* payloads with two more members of other keys
ExtraMessages ==
    { [parse |-> TRUE, state |-> s, hasVolume |-> h, volume |-> (IF h THEN 1 ELSE 0),
       extra |-> 2] : s \in {"absent", "ON"}, h \in BOOLEAN }
Messages ==
    {Malformed} \cup ExtraMessages \cup
    { [parse |-> TRUE, state |-> s, hasVolume |-> FALSE, volume |-> 0, extra |-> 0] :
          s \in StateInputs } \cup
    { [parse |-> TRUE, state |-> s, hasVolume |-> TRUE, volume |-> v, extra |-> 0] :
          s \in StateInputs, v \in VolumeInputs }

VARIABLES
    state,          \* bool state: requested state of the pump
    millis_time,    \* unsigned long millis_time
    volumeTotal,    \* float volumeTotal, in units
    volumeCurrent,  \* float volumeCurrent, in units (Unset = -1.0)
    pump,           \* level of CONFIG_PIN_PUMP (TRUE = HIGH)
    armed,          \* pulseCounter attached to the flow-meter pin
    connected,      \* mqtt.connected()
    now,            \* millis()
    pc,             \* position of the control flow inside loop()
    snap,           \* value of volumeCurrent loaded at line 222
    sent,           \* publish/subscribe calls made by the last step of loop()
    rx,             \* message handed to callback by the last step of loop()
    lastTick,       \* branch taken by the last evaluation of lines 221-240
    pulses,         \* history: handler invocations since attachInterrupt
    lastVolume      \* history: volumeTotal decoded from the last command with a volume

vars == <<state, millis_time, volumeTotal, volumeCurrent, pump, armed, connected,
          now, pc, snap, sent, rx, lastTick, pulses, lastVolume>>

\* ------------------------------------------------------------- processJson
\* (float) jsonDocument["volume"]: a small integer number of ml is exactly
\* representable; the stored value is that number of ml in units.
ToFloat(v) == v * Scale

\* variant: the state is assigned from the comparison with "ON" alone
ProcessStateDefaultOff(m, st) == m.state = "ON"

ProcessState(m, st) ==
    IF m.state = "ON" THEN TRUE
    ELSE IF m.state = "OFF" THEN FALSE
    ELSE st

ProcessVolume(m, vt) ==
    IF m.hasVolume THEN ToFloat(m.volume) ELSE vt

\* JSON_DOCUMENT_SIZE = JSON_OBJECT_SIZE(3): room for an object of 3 members
JsonCapacity == 3
Members(m) == (IF m.state = "absent" THEN 0 ELSE 1) + (IF m.hasVolume THEN 1 ELSE 0)
              + m.extra

\* deserializeJson returns no error: the text is JSON and fits the document
Deserialized(m) == m.parse /\ Members(m) <= JsonCapacity

\* strcmp(jsonDocument["state"], ...) gets a null pointer for a member that
\* is not a string
NullState(m) == m.state = "nonstring"

\* variant: the error of deserializeJson is not checked
processJsonIgnoreError(m, st, vt) ==
    [ok |-> TRUE, state |-> ProcessState(m, st), volumeTotal |-> ProcessVolume(m, vt)]

\* processJson: the return value and the two globals it assigns
processJson(m, st, vt) ==
    IF ~Deserialized(m)
    THEN [ok |-> FALSE, state |-> st, volumeTotal |-> vt]
    ELSE [ok |-> TRUE, state |-> ProcessState(m, st), volumeTotal |-> ProcessVolume(m, vt)]

\* --------------------------------------------------------------- sendState
StatePayload(st) == IF st THEN "ON" ELSE "OFF"
CurrentPayload(vc) == IF vc = Unset THEN 0 ELSE vc

sendState(st, vt, vc, conn) ==
    [topic |-> "state", state |-> StatePayload(st), volumeTarget |-> vt,
     volumeCurrent |-> CurrentPayload(vc), retained |-> TRUE, delivered |-> conn]

Availability(conn) ==
    [topic |-> "availability", state |-> "online", volumeTarget |-> 0,
     volumeCurrent |-> 0, retained |-> TRUE, delivered |-> conn]

\* mqtt.connect(..., CONFIG_MQTT_TOPIC_AVAILABILITY, 0, 1, CONFIG_MQTT_PAYLOAD_OFFLINE):
\* the last will handed to the broker with the connect call
LastWill(conn) ==
    [topic |-> "availability", state |-> "offline", volumeTarget |-> 0,
     volumeCurrent |-> 0, retained |-> TRUE, delivered |-> conn]

Subscribe(conn) ==
    [topic |-> "set", state |-> "subscribe", volumeTarget |-> 0,
     volumeCurrent |-> 0, retained |-> FALSE, delivered |-> conn]

\* ------------------------------------------------------------ pulseCounter
pulseCounter(vc) == vc + VolumePerPulse

\* ---------------------------------------------------- conditions of loop()
\* variant of line 222: "no volume yet" instead of the sentinel
NotActivatedNoFlow(vc) == vc <= 0
NotActivated(vc) == vc = Unset                         \* line 222
\* variant of line 228: strict comparison
TargetReachedStrict(vc, vt) == vc > vt
TargetReached(vc, vt) == vc >= vt                      \* line 228
\* variant of line 235: strict comparison
UpdateDueStrict(t, mt) == t - mt > CONFIG_MQTT_UPDATE_FREQ
\* line 235; the modelled clock stays far below the wrap of unsigned long,
\* where millis() - millis_time is the plain difference
UpdateDue(t, mt) == t - mt >= CONFIG_MQTT_UPDATE_FREQ

TypeOK ==
    /\ state \in BOOLEAN /\ pump \in BOOLEAN /\ armed \in BOOLEAN
    /\ connected \in BOOLEAN
    /\ volumeTotal \in Int /\ volumeCurrent \in Int /\ snap \in Int
    /\ now \in 0..MaxNow /\ millis_time \in 0..MaxNow
    /\ pulses \in 0..MaxPulses
    /\ rx \in Messages \cup {NoMsg}
    /\ Len(sent) <= 4

Init ==
    /\ state = FALSE
    /\ millis_time = 0
    /\ volumeTotal = 0
    /\ volumeCurrent = Unset
    /\ pump = FALSE
    /\ armed = FALSE
    /\ connected = FALSE
    /\ now = 0
    /\ pc = "top"
    /\ snap = Unset
    /\ sent = <<>>
    /\ rx = NoMsg
    /\ lastTick = "none"
    /\ pulses = 0
    /\ lastVolume = 0

\* ======================================================= the environment
\* A falling edge of the flow meter while the handler is attached.
Pulse ==
    /\ pc # "crashed"
    /\ armed
    /\ pulses < MaxPulses
    /\ volumeCurrent' = pulseCounter(volumeCurrent)
    /\ pulses' = pulses + 1
    /\ UNCHANGED <<state, millis_time, volumeTotal, pump, armed, connected, now,
                   pc, snap, sent, rx, lastTick, lastVolume>>

\* Time passes.
Elapse ==
    /\ pc # "crashed"
    /\ now + ClockStep <= MaxNow
    /\ now' = now + ClockStep
    /\ UNCHANGED <<state, millis_time, volumeTotal, volumeCurrent, pump, armed,
                   connected, pc, snap, sent, rx, lastTick, pulses, lastVolume>>

\* The transport connection is lost.
LinkDown ==
    /\ pc # "crashed"
    /\ connected
    /\ connected' = FALSE
    /\ UNCHANGED <<state, millis_time, volumeTotal, volumeCurrent, pump, armed,
                   now, pc, snap, sent, rx, lastTick, pulses, lastVolume>>

\* ================================================================ loop()
\* line 212: if (!mqtt.connected())
LoopTop ==
    /\ pc = "top"
    /\ pc' = IF connected THEN "poll1" ELSE "conn1"
    /\ sent' = <<>>
    /\ rx' = NoMsg
    /\ UNCHANGED <<state, millis_time, volumeTotal, volumeCurrent, pump, armed,
                   connected, now, snap, lastTick, pulses, lastVolume>>

AfterConnect(p) == IF p = "conn1" THEN "poll1" ELSE "poll2"
TryOf(p) == IF p = "conn1" THEN "try1" ELSE "try2"
ConnOf(p) == IF p = "try1" THEN "conn1" ELSE "conn2"

\* MQTTconnect, line 156: while (!mqtt.connected())
MQTTconnectCheck ==
    /\ pc \in {"conn1", "conn2"}
    /\ pc' = IF connected THEN AfterConnect(pc) ELSE TryOf(pc)
    /\ UNCHANGED <<state, millis_time, volumeTotal, volumeCurrent, pump, armed,
                   connected, now, snap, sent, rx, lastTick, pulses, lastVolume>>

\* variant of lines 160-162: the subscription is made before the reports
MQTTconnectOkSubscribeFirst ==
    /\ pc \in {"try1", "try2"}
    /\ connected' = TRUE
    /\ sent' = <<LastWill(TRUE),
                 Subscribe(TRUE),
                 Availability(TRUE),
                 sendState(state, volumeTotal, volumeCurrent, TRUE)>>
    /\ rx' = NoMsg
    /\ pc' = ConnOf(pc)
    /\ UNCHANGED <<state, millis_time, volumeTotal, volumeCurrent, pump, armed,
                   now, snap, lastTick, pulses, lastVolume>>

\* MQTTconnect, lines 158-162: mqtt.connect succeeds
MQTTconnectOk ==
    /\ pc \in {"try1", "try2"}
    /\ connected' = TRUE
    /\ sent' = <<LastWill(TRUE),
                 Availability(TRUE),
                 sendState(state, volumeTotal, volumeCurrent, TRUE),
                 Subscribe(TRUE)>>
    /\ rx' = NoMsg
    /\ pc' = ConnOf(pc)
    /\ UNCHANGED <<state, millis_time, volumeTotal, volumeCurrent, pump, armed,
                   now, snap, lastTick, pulses, lastVolume>>

\* variant of lines 156-168: "if" for "while", a failed attempt is not repeated
MQTTconnectFailReturn ==
    /\ pc \in {"try1", "try2"}
    /\ now' = IF now + RetryDelay > MaxNow THEN MaxNow ELSE now + RetryDelay
    /\ sent' = <<LastWill(FALSE)>>
    /\ rx' = NoMsg
    /\ pc' = AfterConnect(ConnOf(pc))
    /\ UNCHANGED <<state, millis_time, volumeTotal, volumeCurrent, pump, armed,
                   connected, snap, lastTick, pulses, lastVolume>>

\* MQTTconnect, lines 163-168: mqtt.connect fails, delay(5000), try again
MQTTconnectFail ==
    /\ pc \in {"try1", "try2"}
    /\ now' = IF now + RetryDelay > MaxNow THEN MaxNow ELSE now + RetryDelay
    /\ sent' = <<LastWill(FALSE)>>
    /\ rx' = NoMsg
    /\ pc' = ConnOf(pc)
    /\ UNCHANGED <<state, millis_time, volumeTotal, volumeCurrent, pump, armed,
                   connected, snap, lastTick, pulses, lastVolume>>

AfterPoll(p) == IF p = "poll1" THEN "poll2" ELSE "tick"
AfterPollDown(p) == IF p = "poll1" THEN "conn2" ELSE "tick"

\* callback(topic, payload, length): processJson, then sendState on success
callback(m) ==
    LET r == processJson(m, state, volumeTotal) IN
    /\ state' = r.state
    /\ volumeTotal' = r.volumeTotal
    /\ sent' = IF r.ok
               THEN <<sendState(r.state, r.volumeTotal, volumeCurrent, connected)>>
               ELSE <<>>
    /\ lastVolume' = IF Deserialized(m) /\ m.hasVolume THEN m.volume * Scale
                     ELSE lastVolume
    /\ rx' = m

\* mqtt.loop() (lines 216 and 220) while connected, a message has arrived
PollMessage ==
    /\ pc \in {"poll1", "poll2"}
    /\ connected
    /\ \E m \in Messages : callback(m)
    /\ pc' = AfterPoll(pc)
    /\ UNCHANGED <<millis_time, volumeCurrent, pump, armed, connected, now, snap,
                   lastTick, pulses>>

\* mqtt.loop() while connected, a message has arrived whose "state" is not a
\* string: strcmp dereferences a null pointer (lines 76, 79).  The behaviour
\* is undefined: the comparison may come out unequal (PollMessage) or the
\* access traps and the program stops here.
PollCrash ==
    /\ pc \in {"poll1", "poll2"}
    /\ connected
    /\ \E m \in Messages :
          /\ Deserialized(m)
          /\ NullState(m)
          /\ rx' = m
    /\ sent' = <<>>
    /\ pc' = "crashed"
    /\ UNCHANGED <<state, millis_time, volumeTotal, volumeCurrent, pump, armed,
                   connected, now, snap, lastTick, pulses, lastVolume>>

\* mqtt.loop() while connected, nothing to read
PollIdle ==
    /\ pc \in {"poll1", "poll2"}
    /\ connected
    /\ pc' = AfterPoll(pc)
    /\ sent' = <<>>
    /\ rx' = NoMsg
    /\ UNCHANGED <<state, millis_time, volumeTotal, volumeCurrent, pump, armed,
                   connected, now, snap, lastTick, pulses, lastVolume>>

\* mqtt.loop() returns false: line 216 calls MQTTconnect, line 220 ignores it
PollDown ==
    /\ pc \in {"poll1", "poll2"}
    /\ ~connected
    /\ pc' = AfterPollDown(pc)
    /\ sent' = <<>>
    /\ rx' = NoMsg
    /\ UNCHANGED <<state, millis_time, volumeTotal, volumeCurrent, pump, armed,
                   connected, now, snap, lastTick, pulses, lastVolume>>

\* line 221: if (state) is false
TickIdle ==
    /\ pc = "tick"
    /\ ~state
    /\ pc' = "top"
    /\ lastTick' = "idle"
    /\ sent' = <<>>
    /\ rx' = NoMsg
    /\ UNCHANGED <<state, millis_time, volumeTotal, volumeCurrent, pump, armed,
                   connected, now, snap, pulses, lastVolume>>

\* lines 221-222: state is on, volumeCurrent is loaded and compared with -1.0
TickLoad ==
    /\ pc = "tick"
    /\ state
    /\ snap' = volumeCurrent
    /\ pc' = IF NotActivated(volumeCurrent) THEN "start_reset" ELSE "cmp"
    /\ sent' = <<>>
    /\ rx' = NoMsg
    /\ UNCHANGED <<state, millis_time, volumeTotal, volumeCurrent, pump, armed,
                   connected, now, lastTick, pulses, lastVolume>>

\* line 223: volumeCurrent = 0.0
StartReset ==
    /\ pc = "start_reset"
    /\ volumeCurrent' = 0
    /\ pc' = "start_attach"
    /\ UNCHANGED <<state, millis_time, volumeTotal, pump, armed, connected, now,
                   snap, sent, rx, lastTick, pulses, lastVolume>>

\* line 224: attachInterrupt(..., pulseCounter, FALLING)
StartAttach ==
    /\ pc = "start_attach"
    /\ armed' = TRUE
    /\ pulses' = 0
    /\ pc' = "start_pump"
    /\ UNCHANGED <<state, millis_time, volumeTotal, volumeCurrent, pump, connected,
                   now, snap, sent, rx, lastTick, lastVolume>>

\* lines 225-227: digitalWrite(CONFIG_PIN_PUMP, HIGH); millis_time = millis()
StartPump ==
    /\ pc = "start_pump"
    /\ pump' = TRUE
    /\ millis_time' = now
    /\ lastTick' = "start"
    /\ pc' = "top"
    /\ UNCHANGED <<state, volumeTotal, volumeCurrent, armed, connected, now, snap,
                   sent, rx, pulses, lastVolume>>

\* variant of lines 228-231: volumeCurrent is cleared before detachInterrupt
TickReachedClearFirst ==
    /\ pc = "cmp"
    /\ \E v \in {snap, volumeCurrent} :
          /\ v >= volumeTotal
          /\ snap' = v
    /\ pump' = FALSE
    /\ volumeCurrent' = Unset
    /\ pc' = "stop_detach"
    /\ UNCHANGED <<state, millis_time, volumeTotal, armed, connected,
                   now, sent, rx, lastTick, pulses, lastVolume>>

\* line 228, volume limit reached, and line 229: digitalWrite(CONFIG_PIN_PUMP, LOW).
\* volumeCurrent is not volatile: the comparison uses the value loaded at
\* line 222 or a fresh load.
TickReached ==
    /\ pc = "cmp"
    /\ \E v \in {snap, volumeCurrent} :
          /\ TargetReached(v, volumeTotal)
          /\ snap' = v
    /\ pump' = FALSE
    /\ pc' = "stop_detach"
    /\ UNCHANGED <<state, millis_time, volumeTotal, volumeCurrent, armed, connected,
                   now, sent, rx, lastTick, pulses, lastVolume>>

\* variant of line 230: the handler is not detached
StopDetachMissing ==
    /\ pc = "stop_detach"
    /\ pc' = "stop_clear"
    /\ UNCHANGED <<state, millis_time, volumeTotal, volumeCurrent, pump, armed,
                   connected, now, snap, sent, rx, lastTick, pulses, lastVolume>>

\* line 230: detachInterrupt(...)
StopDetach ==
    /\ pc = "stop_detach"
    /\ armed' = FALSE
    /\ pc' = "stop_clear"
    /\ UNCHANGED <<state, millis_time, volumeTotal, volumeCurrent, pump, connected,
                   now, snap, sent, rx, lastTick, pulses, lastVolume>>

\* variant of lines 231-234: the end of a cycle also clears the target
StopClearResetTarget ==
    /\ pc = "stop_clear"
    /\ volumeCurrent' = Unset
    /\ state' = FALSE
    /\ volumeTotal' = 0
    /\ sent' = <<sendState(FALSE, 0, Unset, connected)>>
    /\ lastTick' = "stop"
    /\ pc' = "top"
    /\ UNCHANGED <<millis_time, pump, armed, connected, now, snap, rx,
                   pulses, lastVolume>>

\* lines 231-234: volumeCurrent = -1.0; state = false; sendState()
StopClear ==
    /\ pc = "stop_clear"
    /\ volumeCurrent' = Unset
    /\ state' = FALSE
    /\ sent' = <<sendState(FALSE, volumeTotal, Unset, connected)>>
    /\ lastTick' = "stop"
    /\ pc' = "top"
    /\ UNCHANGED <<millis_time, volumeTotal, pump, armed, connected, now, snap, rx,
                   pulses, lastVolume>>

\* lines 235-238: the limit is not reached and a status update is due
TickReport ==
    /\ pc = "cmp"
    /\ \E v \in {snap, volumeCurrent} :
          /\ ~TargetReached(v, volumeTotal)
          /\ snap' = v
    /\ UpdateDue(now, millis_time)
    /\ millis_time' = now
    /\ sent' = <<sendState(state, volumeTotal, volumeCurrent, connected)>>
    /\ lastTick' = "report"
    /\ pc' = "top"
    /\ UNCHANGED <<state, volumeTotal, volumeCurrent, pump, armed, connected, now,
                   rx, pulses, lastVolume>>

\* line 235 is false: nothing to do in this iteration
TickWait ==
    /\ pc = "cmp"
    /\ \E v \in {snap, volumeCurrent} :
          /\ ~TargetReached(v, volumeTotal)
          /\ snap' = v
    /\ ~UpdateDue(now, millis_time)
    /\ lastTick' = "wait"
    /\ pc' = "top"
    /\ UNCHANGED <<state, millis_time, volumeTotal, volumeCurrent, pump, armed,
                   connected, now, sent, rx, pulses, lastVolume>>

\* the steps of loop(), MQTTconnect included
LoopStep ==
    \/ LoopTop \/ MQTTconnectCheck \/ MQTTconnectOk \/ MQTTconnectFail
    \/ PollMessage \/ PollCrash \/ PollIdle \/ PollDown
    \/ TickIdle \/ TickLoad \/ StartReset \/ StartAttach \/ StartPump
    \/ TickReached \/ StopDetach \/ StopClear \/ TickReport \/ TickWait

Next ==
    \/ Pulse
    \/ Elapse
    \/ LinkDown
    \/ LoopTop
    \/ MQTTconnectCheck
    \/ MQTTconnectOk
    \/ MQTTconnectFail
    \/ PollMessage
    \/ PollCrash
    \/ PollIdle
    \/ PollDown
    \/ TickIdle
    \/ TickLoad
    \/ StartReset
    \/ StartAttach
    \/ StartPump
    \/ TickReached
    \/ StopDetach
    \/ StopClear
    \/ TickReport
    \/ TickWait

Spec == Init /\ [][Next]_vars

\* The control loop keeps running: it always takes its next step.  Whether an
\* attempt of mqtt.connect succeeds or fails is up to the network.
FairSpec == Init /\ [][Next]_vars /\ WF_vars(LoopStep)

\* ===================================================== properties checked
Polling == pc \in {"poll1", "poll2"}
StateReport(e) == e.topic = "state"
Watering == state /\ volumeCurrent # Unset

\* C1: after a command with state OFF was applied during a running cycle, the
\* Tick that finds the state flag off leaves the pump inactive, the handler
\* detached and volumeCurrent unset.
C1_OffStopsWatering ==
    (pc = "top" /\ lastTick = "idle") =>
        (~pump /\ ~armed /\ volumeCurrent = Unset)

\* C2: a cycle that is watering with volumeCurrent >= volumeTotal eventually
\* has its pump driven inactive also when every connect attempt fails, that
\* is, unless the connection comes back (or a command turns the state off,
\* raises the target or stops the program first).
C2_PumpStopsWithoutNetwork ==
    (pump /\ state /\ volumeCurrent # Unset /\ volumeCurrent >= volumeTotal)
        ~> (~pump \/ ~state \/ volumeCurrent < volumeTotal \/ pc = "crashed"
              \/ connected)

\* C3: the Tick leaves Watering exactly when the volume it compares is at or
\* above volumeTotal; the state flag is cleared by a Tick only on that path,
\* and the path ends with the pump inactive, the handler detached,
\* volumeCurrent unset, state off and one report {OFF, volumeCurrent 0}.
C3_StopOnReachedTick ==
    [][ /\ (pc = "cmp" /\ pc' # "cmp") =>
               ((pc' = "stop_detach") <=> (snap' >= volumeTotal))
        /\ (~Polling /\ state /\ ~state') => pc = "stop_clear"
        /\ (pc = "stop_clear" /\ pc' # pc) =>
               /\ pc' = "top"
               /\ ~pump' /\ ~armed' /\ ~state'
               /\ volumeCurrent' = Unset
               /\ Len(sent') = 1
               /\ StateReport(sent'[1])
               /\ sent'[1].state = "OFF"
               /\ sent'[1].volumeCurrent = 0
               /\ sent'[1].volumeTarget = volumeTotal
      ]_vars

C3_Witness ==
    /\ pc = "top" /\ lastTick = "stop"
    /\ pulses > 0 /\ snap >= volumeTotal /\ volumeTotal > 0
    /\ Len(sent) = 1 /\ sent[1].state = "OFF" /\ sent[1].volumeCurrent = 0
    /\ ~pump /\ ~armed /\ ~state /\ volumeCurrent = Unset

\* C4: between two iterations of loop(), volumeCurrent is unset if and only
\* if the state flag is off.
C4_UnsetIffIdle ==
    pc = "top" => ((volumeCurrent = Unset) <=> ~state)

\* C5: the pulse handler is attached only while the state flag is on.
C5_ArmedOnlyWhileWatering ==
    armed => state

\* C6: while the handler is attached, volumeCurrent is exactly the number of
\* handler invocations since attachInterrupt times VolumePerPulse, and no
\* step decreases it.
C6_PulsesAccumulate ==
    [][ /\ armed' => volumeCurrent' = pulses' * VolumePerPulse
        /\ (armed /\ armed') => volumeCurrent' >= volumeCurrent
      ]_vars

C6_Witness ==
    /\ armed /\ pulses = 3 /\ volumeCurrent = 3 * VolumePerPulse
    /\ pc = "poll2" /\ rx.parse /\ lastTick = "report"

\* C7: a Tick that finds the state flag on after the previous Tick left it
\* off starts a cycle: it takes the branch that resets volumeCurrent to 0,
\* attaches the handler, activates the pump and resets millis_time.
C7_EveryStartResets ==
    [][ (pc = "tick" /\ state /\ lastTick \in {"none", "idle", "stop"} /\ pc' # pc)
            => pc' = "start_reset"
      ]_vars

\* C8: a command with state ON applied while already Watering changes none of
\* state, volumeCurrent, armed, pump, millis_time (nor volumeTotal, unless it
\* carries a volume), and a Tick of a running cycle never takes the start
\* branch, so the handler is never attached a second time.
C8_OnWhileWateringIdempotent ==
    [][ /\ (Polling /\ Watering /\ pc' # pc /\ rx'.parse /\ rx'.state = "ON") =>
               /\ state' = state
               /\ volumeCurrent' = volumeCurrent
               /\ armed' = armed
               /\ pump' = pump
               /\ millis_time' = millis_time
               /\ (~rx'.hasVolume => volumeTotal' = volumeTotal)
        /\ (pc = "tick" /\ Watering /\ pc' # pc) => pc' = "cmp"
        /\ (pc' = "start_attach" /\ pc # pc') => ~armed
      ]_vars

C8_Witness ==
    /\ pc = "tick" /\ rx.parse /\ rx.state = "ON" /\ ~rx.hasVolume
    /\ state /\ pump /\ armed /\ pulses = 2 /\ volumeCurrent = 2 * VolumePerPulse
    /\ lastTick \in {"wait", "report"}

\* C9: a command with only a volume field sets volumeTotal and leaves state,
\* pump, armed, volumeCurrent and the position of the loop's cycle alone; a
\* target at or below the delivered volume ends the cycle at the comparison
\* of the next Tick.
C9_VolumeOnlySetsTarget ==
    [][ /\ (Polling /\ pc' # pc /\ rx'.parse /\ rx'.state = "absent" /\ rx'.hasVolume) =>
               /\ volumeTotal' = rx'.volume * Scale
               /\ state' = state
               /\ pump' = pump
               /\ armed' = armed
               /\ volumeCurrent' = volumeCurrent
               /\ millis_time' = millis_time
               /\ pc' \in {"poll2", "tick"}
        /\ (pc = "cmp" /\ snap >= volumeTotal /\ pc' # pc) =>
               (pc' = "stop_detach" /\ ~pump')
      ]_vars

C9_Witness ==
    /\ pc = "tick" /\ rx.parse /\ rx.state = "absent" /\ rx.hasVolume
    /\ rx.volume = 1 /\ volumeTotal = Scale
    /\ state /\ pump /\ armed /\ pulses = 3 /\ volumeCurrent >= volumeTotal
    /\ lastTick = "wait"

\* C10: volumeTotal always is the volume of the last decoded command that
\* carried one (0 before the first), and only a step that hands a command to
\* the decoder changes it.
C10_TargetOnlyFromCommands ==
    [][ /\ volumeTotal' = lastVolume'
        /\ (volumeTotal' # volumeTotal) =>
               (Polling /\ rx'.parse /\ rx'.hasVolume /\ volumeTotal' = rx'.volume * Scale)
      ]_vars

C10_Witness ==
    /\ pc = "top" /\ lastTick = "stop" /\ pulses = 3
    /\ volumeTotal = 2 * Scale /\ lastVolume = 2 * Scale
    /\ volumeCurrent = Unset /\ ~connected

\* C11: a payload that fails to parse leaves state, volumeTotal,
\* volumeCurrent, pump, armed and millis_time as they were, and the callback
\* publishes nothing for it.
C11_MalformedDiscarded ==
    [][ (Polling /\ pc' # pc /\ rx' # NoMsg /\ ~rx'.parse) =>
            /\ state' = state
            /\ volumeTotal' = volumeTotal
            /\ volumeCurrent' = volumeCurrent
            /\ pump' = pump
            /\ armed' = armed
            /\ millis_time' = millis_time
            /\ sent' = <<>>
      ]_vars

C11_Witness ==
    /\ pc = "tick" /\ rx = Malformed /\ sent = <<>>
    /\ state /\ pump /\ armed /\ pulses = 1 /\ volumeTotal = 2 * Scale
    /\ volumeCurrent = VolumePerPulse

\* C12: for every payload that is JSON, the decoder succeeds; state changes
\* only to the value of a "state" member that is "ON" or "OFF", volumeTotal
\* only to the value of a "volume" member; any other "state" value and any
\* member with another key is ignored.
C12_FieldsIndependent ==
    [][ (Polling /\ pc' # pc /\ rx' # NoMsg /\ rx'.parse) =>
            /\ pc' \in {"poll2", "tick"}
            /\ state' = (IF rx'.state = "ON" THEN TRUE
                         ELSE IF rx'.state = "OFF" THEN FALSE ELSE state)
            /\ volumeTotal' = (IF rx'.hasVolume THEN rx'.volume * Scale ELSE volumeTotal)
            /\ Len(sent') = 1
      ]_vars

\* C13: every invocation of the pulse handler adds 1000 / (1925 * 3 / 2) ml,
\* 1000 divided by the configured pulses per liter, to volumeCurrent.
C13_PulseAddsCalibratedVolume ==
    [][ (pulses' = pulses + 1) =>
            (volumeCurrent' - volumeCurrent) * 1925 * 3 = 1000 * Scale * 2
      ]_vars

\* C14: volumeTotal is never negative.
C14_TargetNonNegative ==
    volumeTotal >= 0

Connecting == pc \in {"try1", "try2"}

\* C15: the step that establishes the connection hands over the last will
\* "offline", then publishes the retained "online", then one report of the
\* current state, then subscribes, and processes no command; a failed attempt
\* does none of the three; the connection is established by no other step and
\* commands are processed only while connected.
C15_ConnectSequence ==
    [][ /\ (Connecting /\ pc' # pc /\ connected') =>
               /\ Len(sent') = 4
               /\ sent'[1].topic = "availability" /\ sent'[1].state = "offline"
               /\ sent'[2].topic = "availability" /\ sent'[2].state = "online"
               /\ sent'[2].retained
               /\ sent'[3].topic = "state"
               /\ sent'[3].state = (IF state THEN "ON" ELSE "OFF")
               /\ sent'[3].volumeTarget = volumeTotal
               /\ sent'[3].volumeCurrent = (IF volumeCurrent = Unset THEN 0 ELSE volumeCurrent)
               /\ sent'[4].topic = "set"
               /\ rx' = NoMsg
               /\ state' = state /\ volumeTotal' = volumeTotal
        /\ (Connecting /\ pc' # pc /\ ~connected') =>
               \A i \in 1..Len(sent') :
                   /\ sent'[i].topic \notin {"state", "set"}
                   /\ sent'[i].state # "online"
        /\ (~connected /\ connected') => Connecting
        /\ (rx' # NoMsg /\ pc' # pc) => (Polling /\ connected)
      ]_vars

C15_Witness ==
    /\ pc = "conn2" /\ connected /\ Len(sent) = 4
    /\ sent[3].state = "ON" /\ sent[3].volumeCurrent = 2 * VolumePerPulse
    /\ sent[3].volumeTarget = 2 * Scale
    /\ state /\ pump /\ armed /\ pulses = 2

Disconnected == pc \in {"conn1", "conn2"} /\ ~connected

\* C16: every connect attempt, failed or not, returns to the loop condition
\* of MQTTconnect and changes neither state nor volumeTotal; while not
\* connected the only way on is another attempt, which is eventually made; an
\* accepted attempt publishes "online".
C16_RetriesForever ==
    /\ [][ /\ (Connecting /\ pc' # pc) =>
                  /\ pc' = (IF pc = "try1" THEN "conn1" ELSE "conn2")
                  /\ state' = state
                  /\ volumeTotal' = volumeTotal
                  /\ (connected' => (Len(sent') >= 2 /\ sent'[2].state = "online"))
           /\ (Disconnected /\ pc' # pc) => Connecting'
         ]_vars
    /\ [](Disconnected => <>Connecting)

C16_Witness ==
    /\ pc = "try2" /\ ~connected /\ sent = <<LastWill(FALSE)>>
    /\ now = MaxNow /\ state /\ pump /\ pulses = 2 /\ volumeTotal = 2 * Scale

\* C17: the comparison of a Tick of a running cycle publishes one progress
\* report (state ON) and resets millis_time exactly when the compared volume
\* is below volumeTotal and CONFIG_MQTT_UPDATE_FREQ ms have passed since
\* millis_time was set; otherwise it publishes nothing and leaves millis_time;
\* the Tick that reaches the target publishes only the final report (OFF),
\* and a Tick with the state flag off publishes nothing.
C17_ProgressReportWhenDue ==
    [][ /\ (pc = "cmp" /\ pc' # pc) =>
               /\ (snap' < volumeTotal /\ now - millis_time >= CONFIG_MQTT_UPDATE_FREQ) =>
                      /\ pc' = "top"
                      /\ Len(sent') = 1
                      /\ sent'[1].topic = "state" /\ sent'[1].state = "ON"
                      /\ millis_time' = now
               /\ ~(snap' < volumeTotal /\ now - millis_time >= CONFIG_MQTT_UPDATE_FREQ) =>
                      /\ sent' = <<>>
                      /\ millis_time' = millis_time
        /\ (pc = "stop_detach" /\ pc' # pc) =>
               (sent' = <<>> /\ millis_time' = millis_time)
        /\ (pc = "stop_clear" /\ pc' # pc) =>
               /\ Len(sent') = 1
               /\ sent'[1].topic = "state" /\ sent'[1].state = "OFF"
               /\ millis_time' = millis_time
        /\ (pc = "tick" /\ ~state /\ pc' # pc) =>
               (pc' = "top" /\ sent' = <<>> /\ millis_time' = millis_time)
      ]_vars

C17_Witness ==
    /\ pc = "top" /\ lastTick = "report"
    /\ Len(sent) = 1 /\ sent[1].state = "ON" /\ sent[1].volumeCurrent = VolumePerPulse
    /\ millis_time = now /\ now >= CONFIG_MQTT_UPDATE_FREQ
    /\ state /\ pump /\ pulses = 1 /\ volumeTotal = 2 * Scale

\* the members of the payload of sendState (lines 107-109), and the command
\* payload processJson sees when it is given that payload
ReportKeys == {"state", "volumeTarget", "volumeCurrent"}
AsCommand(e) ==
    [parse |-> TRUE, state |-> e.state, hasVolume |-> "volume" \in ReportKeys,
     volume |-> e.volumeTarget \div Scale, extra |-> Cardinality(ReportKeys \ {"state", "volume"})]

\* C18: decoding a published status report with processJson gives the state
\* and the target volume that were encoded.
C18_RoundTrip ==
    \A i \in 1..Len(sent) :
        (StateReport(sent[i]) /\ sent[i].volumeTarget >= 0) =>
            LET r == processJson(AsCommand(sent[i]), sent[i].state # "ON", 0) IN
            /\ r.ok
            /\ r.state = (sent[i].state = "ON")
            /\ r.volumeTotal = sent[i].volumeTarget

\* ------------------------------------------ the program built with
\* CONFIG_FLOW_METER_PULSES 0: setup() is the same, 1000.0 / 0 is +infinity,
\* and one invocation of the handler makes volumeCurrent infinite.
Infinity == 1000 * 1000 * Scale          \* above every finite volume of the model
pulseCounterZero(vc) == Infinity

PulseZero ==
    /\ pc # "crashed"
    /\ armed
    /\ pulses < MaxPulses
    /\ volumeCurrent' = pulseCounterZero(volumeCurrent)
    /\ pulses' = pulses + 1
    /\ UNCHANGED <<state, millis_time, volumeTotal, pump, armed, connected, now,
                   pc, snap, sent, rx, lastTick, lastVolume>>

NextZero ==
    \/ PulseZero
    \/ Elapse
    \/ LinkDown
    \/ LoopTop
    \/ MQTTconnectCheck
    \/ MQTTconnectOk
    \/ MQTTconnectFail
    \/ PollMessage
    \/ PollCrash
    \/ PollIdle
    \/ PollDown
    \/ TickIdle
    \/ TickLoad
    \/ StartReset
    \/ StartAttach
    \/ StartPump
    \/ TickReached
    \/ StopDetach
    \/ StopClear
    \/ TickReport
    \/ TickWait

SpecZero == Init /\ [][NextZero]_vars

\* C19: built with a pulses-per-liter constant of zero, the program never
\* attaches the pulse handler and never drives the pump active.
C19_ZeroCalibrationRejected ==
    ~armed /\ ~pump

\* C20: between two iterations of loop() (and up to the Tick inside one), the
\* pump is active iff the handler is attached iff volumeCurrent is set.
C20_ActuatorConsistent ==
    (pc \in {"top", "conn1", "conn2", "try1", "try2", "poll1", "poll2", "tick"}) =>
        /\ pump <=> armed
        /\ armed <=> (volumeCurrent # Unset)

C20_Witness ==
    /\ pc = "top" /\ lastTick = "idle" /\ ~state
    /\ pump /\ armed /\ pulses = 2 /\ volumeCurrent = 2 * VolumePerPulse

====
